---- MODULE Spec2Model ----
(***************************************************************************)
(* The request sink of src/main.rs: an axum Router with one route, "/",    *)
(* served by `root` for any method, and the fallback `handle_request`;     *)
(* both call `print_request_info` and then produce their response.         *)
(*                                                                         *)
(* Text is a sequence of strings.  A byte or a character is a string of    *)
(* its own ("h", "/", "xFF"); the constant pieces of a format string are   *)
(* longer strings ("Method: ").  A line of the diagnostic stream is the    *)
(* text one tracing::info! call formats.                                   *)
(*                                                                         *)
(* The diagnostic stream is kept per request: log[i] is the subsequence of *)
(* the stream written by the handler that served request i.  The stream    *)
(* itself is some interleaving of mainLog and the log[i], since every      *)
(* tracing::info! writes one whole line and handlers of different          *)
(* connections run on different tasks of the tokio runtime.                *)
(***************************************************************************)
EXTENDS Integers, Sequences, FiniteSets

\* ------------------------------------------------------------------ bounds
MaxPortLen  == 5    \* longest PORT text tried at startup
MaxUriLen   == 3    \* longest request target
MaxBodyLen  == 2    \* longest request body, in bytes
MaxHeaders  == 1    \* most headers of one request
NumConns    == 2    \* connections the clients open
MaxRequests == 2    \* requests the clients send in the concurrent scenarios

\* --------------------------------------------------------- program constants
DefaultPort == 3000      \* "3000" of unwrap_or
U16Max      == 65535     \* u16::MAX, the range of `let port: u16`

\* ------------------------------------------------------------- text helpers
SeqsUpTo(S, n) == UNION {[1..k -> S] : k \in 0..n}

\* The first index of ch in s, 0 when there is none.
RECURSIVE FindFrom(_, _, _)
FindFrom(s, ch, i) ==
    IF i > Len(s) THEN 0
    ELSE IF s[i] = ch THEN i
    ELSE FindFrom(s, ch, i + 1)

\* ------------------------------------------------- u16 parsing (str::parse)
DigitChars == {"0", "5", "6"}
PortChars  == DigitChars \cup {"+", "-", "x"}

DigitVal(ch) ==
    CASE ch = "0" -> 0 [] ch = "1" -> 1 [] ch = "2" -> 2 [] ch = "3" -> 3
      [] ch = "4" -> 4 [] ch = "5" -> 5 [] ch = "6" -> 6 [] ch = "7" -> 7
      [] ch = "8" -> 8 [] ch = "9" -> 9 [] OTHER -> -1

\* The digit loop of u16::from_str_radix: checked multiply, checked add.
RECURSIVE ParseDigits(_, _)
ParseDigits(s, acc) ==
    IF s = <<>> THEN [ok |-> TRUE, val |-> acc]
    ELSE LET d == DigitVal(Head(s)) IN
         IF d < 0 THEN [ok |-> FALSE, val |-> 0]               \* InvalidDigit
         ELSE IF acc * 10 > U16Max THEN [ok |-> FALSE, val |-> 0]      \* PosOverflow
         ELSE IF acc * 10 + d > U16Max THEN [ok |-> FALSE, val |-> 0]  \* PosOverflow
         ELSE ParseDigits(Tail(s), acc * 10 + d)

\* <u16 as FromStr>::from_str: empty text is an error, one leading "+" is
\* dropped, a lone sign is an error, "-" is no digit of an unsigned type.
ParseU16(s) ==
    IF s = <<>> THEN [ok |-> FALSE, val |-> 0]
    ELSE IF Len(s) = 1 /\ Head(s) \in {"+", "-"} THEN [ok |-> FALSE, val |-> 0]
    ELSE IF Head(s) = "+" THEN ParseDigits(Tail(s), 0)
    ELSE ParseDigits(s, 0)

\* The text of DefaultPort, "3000".into().
DefaultPortText == <<"3", "0", "0", "0">>

\* The PORT setting of the environment: absent, present but not Unicode
\* (std::env::var gives Err for both), or present with a text.
EnvAbsent     == [kind |-> "absent", text |-> <<>>]
EnvNotUnicode == [kind |-> "not_unicode", text |-> <<>>]
EnvText(t)    == [kind |-> "text", text |-> t]

\* std::env::var("PORT").unwrap_or("3000".into())
PortText(e) == IF e.kind = "text" THEN e.text ELSE DefaultPortText

\* ------------------------------------------------------------ request parts
Methods == {"GET", "POST"}

\* Characters of a request target.  The target is in origin form: it starts
\* with "/", the first "?" starts the query.
UriChars == {"/", "a", "?", "%", "\""}
Uris == {u \in SeqsUpTo(UriChars, MaxUriLen) : u # <<>> /\ u[1] = "/"}

\* Uri::path(): the target up to the first "?"; "/" when that is empty.
UriPath(u) ==
    LET q == FindFrom(u, "?", 1)
        p == IF q = 0 THEN u ELSE SubSeq(u, 1, q - 1)
    IN  IF p = <<>> THEN <<"/">> ELSE p

\* Uri::query(): Some(text after the first "?"), None when there is no "?".
UriHasQuery(u) == FindFrom(u, "?", 1) # 0
UriQuery(u) == SubSeq(u, FindFrom(u, "?", 1) + 1, Len(u))

\* Display of Uri ("URI: {}"): the path, then "?" and the query if any.
UriDisplay(u) ==
    UriPath(u) \o (IF UriHasQuery(u) THEN <<"?">> \o UriQuery(u) ELSE <<>>)

\* Bytes of bodies and header values, with their values.
ByteVal(b) ==
    CASE b = "a" -> 97 [] b = "h" -> 104 [] b = "xC3" -> 195
      [] b = "xA9" -> 169 [] b = "xFF" -> 255 [] OTHER -> 63

BodyBytes == {"h", "xC3", "xA9"}
Bodies == SeqsUpTo(BodyBytes, MaxBodyLen)

IsCont(b) == ByteVal(b) >= 128 /\ ByteVal(b) <= 191

\* String::from_utf8, as the `String` extractor applies it to the body:
\* one-byte characters, and lead bytes followed by their continuation bytes.
RECURSIVE Utf8Valid(_)
Utf8Valid(s) ==
    IF s = <<>> THEN TRUE
    ELSE LET v == ByteVal(Head(s))
             w == IF v < 128 THEN 1
                  ELSE IF v >= 194 /\ v <= 223 THEN 2
                  ELSE IF v >= 224 /\ v <= 239 THEN 3
                  ELSE IF v >= 240 /\ v <= 244 THEN 4
                  ELSE 0
         IN  /\ w > 0
             /\ Len(s) >= w
             /\ \A k \in 2..w : IsCont(s[k])
             /\ (v = 224 => ByteVal(s[2]) >= 160)
             /\ (v = 237 => ByteVal(s[2]) <= 159)
             /\ (v = 240 => ByteVal(s[2]) >= 144)
             /\ (v = 244 => ByteVal(s[2]) <= 143)
             /\ Utf8Valid(SubSeq(s, w + 1, Len(s)))

\* HeaderValue::to_str: Ok only if every byte is a tab or visible ASCII.
VisibleAscii(b) == ByteVal(b) = 9 \/ (ByteVal(b) >= 32 /\ ByteVal(b) < 127)
ToStrOk(v) == \A k \in 1..Len(v) : VisibleAscii(v[k])

HeaderMenu ==
    { [name |-> "x-test", value |-> <<"a">>],
      [name |-> "x-bin",  value |-> <<"xFF">>] }
HeaderLists == SeqsUpTo(HeaderMenu, MaxHeaders)

Requests ==
    [method : Methods, uri : Uris, headers : HeaderLists, body : Bodies]

\* ------------------------------------------------------------- log lines
StartMarker == <<"=== Request Received ===">>
EndMarker   == <<"=== End of Request Info ===">>
MethodLine(r)  == <<"Method: ", r.method>>
UriLine(r)     == <<"URI: ">> \o UriDisplay(r.uri)
PathLine(r)    == <<"Path: ">> \o UriPath(r.uri)
QueryLine(r)   == <<"Query String: ">> \o UriQuery(r.uri)
HeadersMarker  == <<"Headers:">>
HeaderLine(h)  ==
    IF ToStrOk(h.value) THEN <<"  ", h.name, ": ">> \o h.value
    ELSE <<"  ", h.name, ": <Binary Data>">>
BodyMarker     == <<"Body:">>
BodyLine(r)    == IF r.body = <<>> THEN <<"  <Empty>">> ELSE <<"  ">> \o r.body
ListeningLine(p) == <<"Listening on IPv6 at [::]:", p, "!">>

\* -------------------------------------------------------------- responses
\* serde_json's string escaping of the characters a path can hold.
RECURSIVE JsonEscape(_)
JsonEscape(s) ==
    IF s = <<>> THEN <<>>
    ELSE (IF Head(s) = "\"" THEN <<"\\", "\"">>
          ELSE IF Head(s) = "\\" THEN <<"\\", "\\">>
          ELSE <<Head(s)>>) \o JsonEscape(Tail(s))

NoResponse == [status |-> 0, ctype |-> "", body |-> <<>>]

\* The &'static str of root, as a response.
RootResponse ==
    [status |-> 200, ctype |-> "text/plain; charset=utf-8",
     body |-> <<"Hello, World!">>]

\* (StatusCode::NOT_FOUND, Json(json!({"error": .., "path": uri.path()})))
FallbackResponse(r) ==
    [status |-> 404, ctype |-> "application/json",
     body |-> <<"{\"error\":\"Route not found\",\"path\":\"">>
              \o JsonEscape(UriPath(r.uri)) \o <<"\"}">>]

\* The rejection of the `body: String` argument: the body is not UTF-8.
RejectResponse ==
    [status |-> 400, ctype |-> "text/plain; charset=utf-8",
     body |-> <<"Request body didn't contain valid UTF-8">>]

\* ------------------------------------------------------------------ state
VARIABLES
    env,      \* the PORT setting the process starts with
    phase,    \* main: "start", "parsed", "listening", "aborted"
    port,     \* the u16 main parsed
    mainLog,  \* the lines main wrote
    quota,    \* requests the clients will still send
    pc,       \* pc[c]: where the task serving connection c is
    cur,      \* cur[c]: the request connection c carries or carried last, 0 if none
    hidx,     \* hidx[c]: position of print_request_info's header loop
    req,      \* req[i]: the i-th request received
    route,    \* route[i]: the handler the Router chose for it
    calls,    \* calls[i]: the handler functions whose body ran for it, in order
    log,      \* log[i]: the lines print_request_info wrote for it
    resp,     \* resp[i]: the response made for it
    written   \* requests whose response was written to the client

vars == <<env, phase, port, mainLog, quota, pc, cur, hidx,
          req, route, calls, log, resp, written>>

Conns == 1..NumConns

mainVars == <<env, phase, port, mainLog>>
reqVars  == <<req, route, calls, log, resp, written>>

\* The state after process start, before main has run, with a PORT setting
\* among envs and clients that will send n requests.
InitWith(envs, n) ==
    /\ env \in envs
    /\ phase = "start"
    /\ port = 0
    /\ mainLog = <<>>
    /\ quota = n
    /\ pc = [c \in Conns |-> "idle"]
    /\ cur = [c \in Conns |-> 0]
    /\ hidx = [c \in Conns |-> 0]
    /\ req = <<>>
    /\ route = <<>>
    /\ calls = <<>>
    /\ log = <<>>
    /\ resp = <<>>
    /\ written = {}

\* -------------------------------------------------------------------- main
\* ReadPort with the default also taken when the text does not parse.
ReadPortLenient ==
    /\ phase = "start"
    /\ LET p == ParseU16(PortText(env)) IN
       /\ phase' = "parsed"
       /\ port' = IF p.ok THEN p.val ELSE DefaultPort
    /\ UNCHANGED <<env, mainLog, quota, pc, cur, hidx>>
    /\ UNCHANGED reqVars

\* let port: u16 = env::var("PORT").unwrap_or("3000".into()).parse().expect(..)
ReadPort ==
    /\ phase = "start"
    /\ LET p == ParseU16(PortText(env)) IN
       IF p.ok THEN /\ phase' = "parsed"
                    /\ port' = p.val
               ELSE /\ phase' = "aborted"
                    /\ port' = port
    /\ UNCHANGED <<env, mainLog, quota, pc, cur, hidx>>
    /\ UNCHANGED reqVars

\* TcpListener::bind(&ipv6).await.unwrap() succeeds; "Listening on ..." is logged.
Bind ==
    /\ phase = "parsed"
    /\ phase' = "listening"
    /\ mainLog' = Append(mainLog, ListeningLine(port))
    /\ UNCHANGED <<env, port, quota, pc, cur, hidx>>
    /\ UNCHANGED reqVars

\* TcpListener::bind fails (the port is taken, or privileged): unwrap panics.
BindFail ==
    /\ phase = "parsed"
    /\ phase' = "aborted"
    /\ UNCHANGED <<env, port, mainLog, quota, pc, cur, hidx>>
    /\ UNCHANGED reqVars

\* ------------------------------------------------------------- connections
\* axum::serve accepts connection c and spawns the task that serves it.
\* Clients connect only while they still have a request to send.
Accept(c) ==
    /\ phase = "listening"
    /\ pc[c] = "idle"
    /\ quota > 0
    /\ pc' = [pc EXCEPT ![c] = "reading"]
    /\ UNCHANGED <<quota, cur, hidx>>
    /\ UNCHANGED mainVars
    /\ UNCHANGED reqVars

\* The client of connection c has sent a request of menu completely.
ClientSend(c, menu) ==
    /\ pc[c] = "reading"
    /\ quota > 0
    /\ quota' = quota - 1
    /\ \E r \in menu : req' = Append(req, r)
    /\ route' = Append(route, "none")
    /\ calls' = Append(calls, <<>>)
    /\ log' = Append(log, <<>>)
    /\ resp' = Append(resp, NoResponse)
    /\ cur' = [cur EXCEPT ![c] = Len(req) + 1]
    /\ pc' = [pc EXCEPT ![c] = "received"]
    /\ UNCHANGED <<hidx, written>>
    /\ UNCHANGED mainVars

\* Router: .route("/", any(root)).fallback(handle_request).  The path alone
\* decides, the method does not.
RouteOf(r) == IF UriPath(r.uri) = <<"/">> THEN "root" ELSE "fallback"

\* Dispatch by a server that serves one connection at a time.
DispatchSerial(c) ==
    /\ pc[c] = "received"
    /\ \A d \in Conns \ {c} : pc[d] = "idle"
    /\ route' = [route EXCEPT ![cur[c]] = RouteOf(req[cur[c]])]
    /\ pc' = [pc EXCEPT ![c] = "extract"]
    /\ UNCHANGED <<quota, cur, hidx, req, calls, log, resp, written>>
    /\ UNCHANGED mainVars

Dispatch(c) ==
    /\ pc[c] = "received"
    /\ route' = [route EXCEPT ![cur[c]] = RouteOf(req[cur[c]])]
    /\ pc' = [pc EXCEPT ![c] = "extract"]
    /\ UNCHANGED <<quota, cur, hidx, req, calls, log, resp, written>>
    /\ UNCHANGED mainVars

\* The arguments (Method, Uri, HeaderMap, String) are extracted from the
\* request.  `body: String` rejects a body that is not UTF-8: the response is
\* the rejection and the handler's body never runs.  Otherwise the handler
\* is called and starts with print_request_info.  (Bodies here are far below
\* the extractor's size limit.)
Extract(c) ==
    /\ pc[c] = "extract"
    /\ LET i == cur[c] IN
       IF Utf8Valid(req[i].body)
       THEN /\ calls' = [calls EXCEPT ![i] = Append(@, route[i])]
            /\ pc' = [pc EXCEPT ![c] = "log_start"]
            /\ resp' = resp
       ELSE /\ resp' = [resp EXCEPT ![i] = RejectResponse]
            /\ pc' = [pc EXCEPT ![c] = "respond"]
            /\ calls' = calls
    /\ UNCHANGED <<quota, cur, hidx, req, route, log, written>>
    /\ UNCHANGED mainVars

\* ------------------------------------------------------ print_request_info
\* One tracing::info! call of the task serving connection c: the line is
\* written, control moves to next.
Emit(c, at, line, next) ==
    /\ pc[c] = at
    /\ log' = [log EXCEPT ![cur[c]] = Append(@, line)]
    /\ pc' = [pc EXCEPT ![c] = next]
    /\ UNCHANGED <<quota, cur, req, route, calls, resp, written>>
    /\ UNCHANGED mainVars

LogStart(c)  == Emit(c, "log_start", StartMarker, "log_method") /\ UNCHANGED hidx
LogMethod(c) == Emit(c, "log_method", MethodLine(req[cur[c]]), "log_uri") /\ UNCHANGED hidx
LogUri(c)    == Emit(c, "log_uri", UriLine(req[cur[c]]), "log_path") /\ UNCHANGED hidx
LogPath(c)   == Emit(c, "log_path", PathLine(req[cur[c]]), "log_query") /\ UNCHANGED hidx

\* LogQuery with the query line left out when the query is empty.
LogQuerySkipsEmpty(c) ==
    /\ pc[c] = "log_query"
    /\ log' = [log EXCEPT ![cur[c]] =
                  IF UriHasQuery(req[cur[c]].uri) /\ UriQuery(req[cur[c]].uri) # <<>>
                  THEN Append(@, QueryLine(req[cur[c]])) ELSE @]
    /\ pc' = [pc EXCEPT ![c] = "log_headers"]
    /\ UNCHANGED <<quota, cur, hidx, req, route, calls, resp, written>>
    /\ UNCHANGED mainVars

\* if let Some(query) = uri.query() { info!("Query String: {}", query) }
LogQuery(c) ==
    /\ pc[c] = "log_query"
    /\ log' = [log EXCEPT ![cur[c]] =
                  IF UriHasQuery(req[cur[c]].uri)
                  THEN Append(@, QueryLine(req[cur[c]])) ELSE @]
    /\ pc' = [pc EXCEPT ![c] = "log_headers"]
    /\ UNCHANGED <<quota, cur, hidx, req, route, calls, resp, written>>
    /\ UNCHANGED mainVars

LogHeaders(c) ==
    /\ Emit(c, "log_headers", HeadersMarker, "log_header")
    /\ hidx' = [hidx EXCEPT ![c] = 1]

\* LogHeader with value.to_str().unwrap(): a value that is no text ends the
\* request with an error response.
LogHeaderUnwrap(c) ==
    /\ pc[c] = "log_header"
    /\ LET hs == req[cur[c]].headers IN
       IF hidx[c] <= Len(hs) /\ ToStrOk(hs[hidx[c]].value)
       THEN /\ log' = [log EXCEPT ![cur[c]] = Append(@, HeaderLine(hs[hidx[c]]))]
            /\ hidx' = [hidx EXCEPT ![c] = @ + 1]
            /\ pc' = pc
            /\ resp' = resp
       ELSE IF hidx[c] <= Len(hs)
       THEN /\ log' = log
            /\ hidx' = [hidx EXCEPT ![c] = 0]
            /\ pc' = [pc EXCEPT ![c] = "respond"]
            /\ resp' = [resp EXCEPT ![cur[c]] =
                           [status |-> 500, ctype |-> "", body |-> <<>>]]
       ELSE /\ log' = log
            /\ hidx' = [hidx EXCEPT ![c] = 0]
            /\ pc' = [pc EXCEPT ![c] = "log_body_marker"]
            /\ resp' = resp
    /\ UNCHANGED <<quota, cur, req, route, calls, written>>
    /\ UNCHANGED mainVars

\* for (key, value) in headers.iter(): one line for the next header, or the
\* end of the loop.
LogHeader(c) ==
    /\ pc[c] = "log_header"
    /\ LET hs == req[cur[c]].headers IN
       IF hidx[c] <= Len(hs)
       THEN /\ log' = [log EXCEPT ![cur[c]] = Append(@, HeaderLine(hs[hidx[c]]))]
            /\ hidx' = [hidx EXCEPT ![c] = @ + 1]
            /\ pc' = pc
       ELSE /\ log' = log
            /\ hidx' = [hidx EXCEPT ![c] = 0]
            /\ pc' = [pc EXCEPT ![c] = "log_body_marker"]
    /\ UNCHANGED <<quota, cur, req, route, calls, resp, written>>
    /\ UNCHANGED mainVars

LogBodyMarker(c) == Emit(c, "log_body_marker", BodyMarker, "log_body") /\ UNCHANGED hidx

\* LogBody returning from print_request_info right after "  <Empty>".
LogBodyEarlyReturn(c) ==
    /\ Emit(c, "log_body", BodyLine(req[cur[c]]),
            IF req[cur[c]].body = <<>> THEN "return" ELSE "log_end")
    /\ UNCHANGED hidx

LogBody(c)   == Emit(c, "log_body", BodyLine(req[cur[c]]), "log_end") /\ UNCHANGED hidx
LogEnd(c)    == Emit(c, "log_end", EndMarker, "return") /\ UNCHANGED hidx

\* ---------------------------------------------------------------- handlers
\* HandlerResult with the greeting and the JSON given to the first caller only.
HandlerResultFirstOnly(i) ==
    IF written # {} THEN [status |-> 200, ctype |-> "", body |-> <<>>]
    ELSE IF calls[i][Len(calls[i])] = "root" THEN RootResponse
    ELSE FallbackResponse(req[i])

\* The value the handler called for request i returns, as a response.
HandlerResult(i) ==
    IF calls[i][Len(calls[i])] = "root" THEN RootResponse
    ELSE FallbackResponse(req[i])

\* print_request_info has returned: the handler returns its value.
Return(c) ==
    /\ pc[c] = "return"
    /\ resp' = [resp EXCEPT ![cur[c]] = HandlerResult(cur[c])]
    /\ pc' = [pc EXCEPT ![c] = "respond"]
    /\ UNCHANGED <<quota, cur, hidx, req, route, calls, log, written>>
    /\ UNCHANGED mainVars

\* The response is written to the client, which reads it; the connection
\* is kept for the next request.
WriteResponse(c) ==
    /\ pc[c] = "respond"
    /\ written' = written \cup {cur[c]}
    /\ pc' = [pc EXCEPT ![c] = "idle"]
    /\ UNCHANGED <<quota, cur, hidx, req, route, calls, log, resp>>
    /\ UNCHANGED mainVars

\* Every step of the task that serves connection c.
ServerStep(c) ==
    \/ Dispatch(c) \/ Extract(c)
    \/ LogStart(c) \/ LogMethod(c) \/ LogUri(c) \/ LogPath(c) \/ LogQuery(c)
    \/ LogHeaders(c) \/ LogHeader(c) \/ LogBodyMarker(c) \/ LogBody(c)
    \/ LogEnd(c) \/ Return(c)

\* The process, with clients on the connections cs sending requests of menu.
Step(cs, menu) ==
    \/ ReadPort \/ Bind \/ BindFail
    \/ \E c \in cs : Accept(c)
    \/ \E c \in cs : ClientSend(c, menu)
    \/ \E c \in Conns : ServerStep(c)
    \/ \E c \in Conns : WriteResponse(c)

\* ---------------------------------------------------------- specifications
SmallEnvs == {EnvAbsent, EnvText(<<"x">>)}

\* One exchange: any one request of Requests, on the first connection.
Init == InitWith(SmallEnvs, 1)
Next == Step({1}, Requests)
Spec == Init /\ [][Next]_vars

\* Startup: every PORT setting, then one request on the first connection.
PortEnvs ==
    {EnvAbsent, EnvNotUnicode}
        \cup {EnvText(t) : t \in SeqsUpTo(PortChars, MaxPortLen)}
BootMenu ==
    [method : {"GET"}, uri : {<<"/">>}, headers : {<<>>}, body : {<<>>}]
InitBoot == InitWith(PortEnvs, 1)
NextBoot == Step({1}, BootMenu)
SpecBoot == InitBoot /\ [][NextBoot]_vars

\* Concurrency: MaxRequests requests of a small menu, on any connections.
ConcMenu ==
    [method : {"GET"}, uri : {<<"/">>, <<"/", "a">>}, headers : {<<>>},
     body : {<<>>, <<"xC3">>}]
InitConc == InitWith({EnvAbsent, EnvText(<<"x">>)}, MaxRequests)
NextConc == Step(Conns, ConcMenu)
SpecConc == InitConc /\ [][NextConc]_vars

\* The same, with the scheduling the tokio runtime gives: a task that can
\* take a step takes one.  The client of connection 1 reads its responses;
\* the clients of the other connections may stall for ever, while sending a
\* request or before reading a response.
Fairness ==
    /\ \A c \in Conns : WF_vars(ServerStep(c))
    /\ WF_vars(WriteResponse(1))
LiveMenu ==
    [method : {"GET"}, uri : {<<"/", "a">>}, headers : {<<>>},
     body : {<<>>, <<"xC3">>}]
NextLive == Step(Conns, LiveMenu)
SpecLive == InitConc /\ [][NextLive]_vars /\ Fairness

\* Headers: two requests on two connections, with every list of headers.
HdrMenu ==
    [method : {"GET"}, uri : {<<"/">>, <<"/", "a", "?">>},
     headers : HeaderLists, body : {<<>>, <<"xC3">>}]
InitHdr == InitWith({EnvAbsent, EnvText(<<"x">>)}, 2)
NextHdr == Step({1, 2}, HdrMenu)
SpecHdr == InitHdr /\ [][NextHdr]_vars

\* ================================================================== claims
Received == 1..Len(req)
Responded(i) == resp[i] # NoResponse
HandlerRan(i) == calls[i] # <<>>
IsRootPath(r) == UriPath(r.uri) = <<"/">>
Last(s) == s[Len(s)]

\* The text of a JSON string, read back from its escaped form.
RECURSIVE JsonUnescape(_)
JsonUnescape(s) ==
    IF s = <<>> THEN <<>>
    ELSE IF Head(s) = "\\" /\ Len(s) >= 2
         THEN <<s[2]>> \o JsonUnescape(SubSeq(s, 3, Len(s)))
         ELSE <<Head(s)>> \o JsonUnescape(Tail(s))

\* The body is the JSON object {"error": "Route not found", "path": p}.
IsNotFoundJson(b, p) ==
    /\ Len(b) >= 2
    /\ b[1] = "{\"error\":\"Route not found\",\"path\":\""
    /\ Last(b) = "\"}"
    /\ \A k \in 2..(Len(b) - 1) :
          b[k] = "\"" => (k > 2 /\ b[k - 1] = "\\")
    /\ JsonUnescape(SubSeq(b, 2, Len(b) - 1)) = p

\* C1: every request whose path is exactly "/", whatever its method, headers
\* or body (a body that is not UTF-8 included), is answered with status 200
\* and the body "Hello, World!".
C1_RootAlwaysGreets ==
    \A i \in Received :
        (Responded(i) /\ IsRootPath(req[i])) =>
            /\ resp[i].status = 200
            /\ resp[i].body = <<"Hello, World!">>

\* C2: every request whose path is not "/", whatever its method, is answered
\* with status 404 and a JSON body whose error field is "Route not found" and
\* whose path field is the path component of the request target, unchanged.
C2_OtherAlwaysNotFound ==
    \A i \in Received :
        (Responded(i) /\ ~IsRootPath(req[i])) =>
            /\ resp[i].status = 404
            /\ IsNotFoundJson(resp[i].body, UriPath(req[i].uri))

\* C7: for every request exactly one of the two handlers runs, root if and
\* only if the path is exactly "/", the fallback otherwise; never both and
\* never neither, for any method, headers or body.
C7_ExactlyOneHandler ==
    \A i \in Received :
        Responded(i) =>
            calls[i] = <<IF IsRootPath(req[i]) THEN "root" ELSE "fallback">>

\* C8: the end marker of a request's log section is emitted before its
\* response is written, and no response is ever written for a request whose
\* log section has not been emitted.
C8_LoggedBeforeWritten ==
    \A i \in written :
        /\ log[i] # <<>>
        /\ Head(log[i]) = StartMarker
        /\ Last(log[i]) = EndMarker

\* The lines the logger is to write for request r, in order.
SectionOf(r) ==
    <<StartMarker, <<"Method: ", r.method>>, <<"URI: ">> \o r.uri,
      <<"Path: ">> \o UriPath(r.uri)>>
    \o (IF \E k \in 1..Len(r.uri) : r.uri[k] = "?"
        THEN <<(<<"Query String: ">> \o UriQuery(r.uri))>> ELSE <<>>)
    \o <<HeadersMarker>>
    \o [k \in 1..Len(r.headers) |-> HeaderLine(r.headers[k])]
    \o <<BodyMarker>>
    \o <<(IF Len(r.body) = 0 THEN <<"  <Empty>">> ELSE <<"  ">> \o r.body)>>
    \o <<EndMarker>>

IsPrefix(s, t) == Len(s) <= Len(t) /\ s = SubSeq(t, 1, Len(s))

IsDigits(t) == t # <<>> /\ \A k \in 1..Len(t) : DigitVal(t[k]) >= 0

RECURSIVE DecimalValue(_)
DecimalValue(t) ==
    IF t = <<>> THEN 0
    ELSE DecimalValue(SubSeq(t, 1, Len(t) - 1)) * 10 + DigitVal(Last(t))

\* The digits of a PORT text: the text itself, or what follows one "+".
Unsigned(t) == IF t # <<>> /\ Head(t) = "+" THEN Tail(t) ELSE t

\* The text is an unsigned 16-bit integer: digits, of a value in 0..65535.
IsU16Text(t) == IsDigits(Unsigned(t)) /\ DecimalValue(Unsigned(t)) <= 65535

NothingServed ==
    /\ phase \in {"start", "aborted"}
    /\ mainLog = <<>>
    /\ req = <<>>
    /\ \A c \in Conns : pc[c] = "idle"

\* C3 (as claimed): a PORT that is present but no unsigned 16-bit integer
\* (non-numeric, empty, out of range, or not valid text) aborts the process
\* before a socket is bound and no request is ever served; the default 3000
\* is used only when PORT is absent.
C3_AbortUnlessAbsent ==
    /\ (env.kind # "absent" /\ ~(env.kind = "text" /\ IsU16Text(env.text)))
          => NothingServed
    /\ (phase \in {"parsed", "listening"} /\ env.kind # "absent")
          => port = DecimalValue(Unsigned(env.text))

\* C3 (amended): a PORT that is present as text but no unsigned 16-bit integer
\* (non-numeric, empty, out of range) aborts the process before a socket is
\* bound and no request is ever served; the default 3000 is used when PORT is
\* absent and also when its value is not valid Unicode text.
C3_AbortOnBadText ==
    /\ (env.kind = "text" /\ ~IsU16Text(env.text)) => NothingServed
    /\ phase \in {"parsed", "listening"} =>
          port = IF env.kind = "text" THEN DecimalValue(Unsigned(env.text))
                 ELSE 3000

\* An out-of-range PORT of five digits has aborted the process.
C3_Witness ==
    /\ env.kind = "text"
    /\ Len(env.text) = 5
    /\ IsDigits(env.text)
    /\ DecimalValue(env.text) > 65535
    /\ phase = "aborted"

RECURSIVE CountOf(_, _)
CountOf(line, s) ==
    IF s = <<>> THEN 0
    ELSE (IF Head(s) = line THEN 1 ELSE 0) + CountOf(line, Tail(s))

RECURSIVE SumOver(_, _)
SumOver(f, n) == IF n = 0 THEN 0 ELSE f[n] + SumOver(f, n - 1)

Starts == SumOver([i \in Received |-> CountOf(StartMarker, log[i])], Len(req))
Ends   == SumOver([i \in Received |-> CountOf(EndMarker, log[i])], Len(req))
HandlersRun == SumOver([i \in Received |-> Len(calls[i])], Len(req))

InHandler(c) ==
    pc[c] \in {"log_start", "log_method", "log_uri", "log_path", "log_query",
               "log_headers", "log_header", "log_body_marker", "log_body",
               "log_end", "return"}

\* C10: at every moment the log holds no more end markers than start
\* markers; once every started handler has finished, the number of start
\* markers equals the number of end markers and the number of handlers run.
C10_MarkersBalance ==
    /\ Ends <= Starts
    /\ Starts <= HandlersRun
    /\ (\A c \in Conns : ~InHandler(c)) =>
          (Starts = Ends /\ Ends = HandlersRun)

\* Two handlers have run and finished and none is running: two start
\* markers, two end markers.
C10_Witness ==
    /\ HandlersRun = 2
    /\ \A c \in Conns : ~InHandler(c)
    /\ Starts = 2
    /\ Ends = 2

\* ------------------------------------------------------------------ headers
\* Request r without its k-th header.
WithoutHeader(r, k) ==
    [r EXCEPT !.headers = SubSeq(@, 1, k - 1) \o SubSeq(@, k + 1, Len(@))]

\* The number of lines the logger writes before the first header line.
LinesBeforeHeaders(r) == IF UriHasQuery(r.uri) THEN 6 ELSE 5

C9_NoWaitingOnOthers ==
    \A i \in 1..MaxRequests :
        (pc[1] = "received" /\ cur[1] = i) ~> (i \in written)

\* The request of connection 1 arrived after that of another connection and
\* was answered while the other client still had not read its response.
C9_Witness ==
    \E d \in Conns \ {1} :
        /\ pc[d] = "respond"
        /\ cur[1] > cur[d]
        /\ cur[1] \in written

====
